---- MODULE Spec2Model ----
(***************************************************************************)
(* Traffic-aware SDN controller (src/traffic_aware_controller.py).         *)
(*                                                                         *)
(* The controller keeps a directed weighted graph of switches (self.net),  *)
(* a host table (self.hosts), per-port counters (self.port_stats) and the  *)
(* connected datapaths (self.datapaths).  Event handlers run one at a time *)
(* to completion on the event loop; the monitor loop and every deferred    *)
(* installer run on threads of their own and interleave with the handlers  *)
(* statement by statement.                                                 *)
(*                                                                         *)
(* Each handler is an operator whose parameters are the fields of the      *)
(* event; every specification below draws those fields from its own small  *)
(* sets.  Numbers that the code computes in floating point are modelled as *)
(* exact rationals <<numerator, denominator>>.                             *)
(***************************************************************************)
EXTENDS Integers, Sequences, FiniteSets, TLC

VARIABLES
    net_nodes,                  \* self.net: the nodes of the DiGraph
    net_adj,                    \* self.net: <<u, v>> -> [port, weight, capacity]
    hosts,                      \* self.hosts: mac -> <<dpid, port>>
    port_stats,                 \* self.port_stats: <<dpid, port>> -> sample
    datapaths,                  \* self.datapaths: the dpids that are keys
    proactive_flows_installed,  \* self.proactive_flows_installed
    installers,                 \* the delayed_install threads started so far
    install_runs,               \* how many times _install_proactive_flows was entered
    monitor,                    \* the _monitor_loop thread
    nx_checks_target,           \* the networkx build: does shortest_path reject a missing target
    returned,                   \* the path a direct call of calculate_best_path returned in the last step (<<>> is None)
    ev,                         \* the event or thread step handled last
    sent,                       \* the messages that step passed to send_msg, in order
    err                         \* the exception that step ended with, or "none"

vars == <<net_nodes, net_adj, hosts, port_stats, datapaths, proactive_flows_installed, installers, install_runs, monitor, nx_checks_target, returned, ev, sent, err>>

net_vars == <<net_nodes, net_adj>>

thread_vars == <<installers, install_runs, monitor>>

----------------------------------------------------------------------------
(* Bounds of the model *)

NumSwitches == 3

MaxPort == 2

NumMacs == 2

MaxThreads == 2

NumKnownHosts == 2

MaxTime == 1

----------------------------------------------------------------------------
(* Program constants.  The reserved OpenFlow ports are 32-bit values above 0xffffff00; *)
(* they are written as the signed 32-bit integers with the same bits.                  *)

\* 0xfffffffe
OFPP_LOCAL == -2

\* 0xfffffffb
OFPP_FLOOD == -5

\* 0xfffffffd
OFPP_CONTROLLER == -3

DefaultCapacity == 100

MinEdges == 10

LogEvery == 6

Dpids == 1..NumSwitches

Ports == 1..MaxPort

Macs == 1..NumMacs

----------------------------------------------------------------------------
(* Exact rational arithmetic for the quantities Python holds as floats *)

RECURSIVE GCD(_, _)
GCD(a, b) == IF b = 0 THEN a ELSE GCD(b, a % b)

Abs(n) == IF n < 0 THEN -n ELSE n

Rat(n, d) == LET s == IF d < 0 THEN -1 ELSE 1 g == GCD(Abs(n), Abs(d)) IN <<(s * n) \div g, (s * d) \div g>>

RatInt(n) == <<n, 1>>

RatAdd(a, b) == Rat(a[1] * b[2] + b[1] * a[2], a[2] * b[2])

RatMul(a, b) == LET x == Rat(a[1], b[2]) y == Rat(b[1], a[2]) IN Rat(x[1] * y[1], x[2] * y[2])

RatDiv(a, b) == RatMul(a, <<b[2], b[1]>>)

RatLt(a, b) == a[1] * b[2] < b[1] * a[2]

RatLe(a, b) == a[1] * b[2] <= b[1] * a[2]

RatMin(a, b) == IF RatLt(b, a) THEN b ELSE a

----------------------------------------------------------------------------
(* networkx.DiGraph operations used by the controller *)

Edge(port, weight, capacity) == [port |-> port, weight |-> weight, capacity |-> capacity]

\* An add_edge that adds 1 to the weight of an edge that is already there
AddEdge_Accumulates(adj, u, v, port) == [e \in (DOMAIN adj) \cup {<<u, v>>} |-> IF e = <<u, v>> THEN Edge(port, IF e \in DOMAIN adj THEN RatAdd(adj[e].weight, RatInt(1)) ELSE RatInt(1), DefaultCapacity) ELSE adj[e]]

\* DiGraph.add_edge(u, v, port=, weight=, capacity=): creates or overwrites the edge
AddEdge(adj, u, v, port) == [e \in (DOMAIN adj) \cup {<<u, v>>} |-> IF e = <<u, v>> THEN Edge(port, RatInt(1), DefaultCapacity) ELSE adj[e]]

\* DiGraph.remove_edge(u, v) behind has_edge(u, v)
RemoveEdge(adj, u, v) == [e \in (DOMAIN adj) \ {<<u, v>>} |-> adj[e]]

\* DiGraph.remove_node(n): the node and every edge into or out of it
RemoveNodeEdges(adj, n) == [e \in {x \in DOMAIN adj : x[1] # n /\ x[2] # n} |-> adj[e]]

\* DiGraph.neighbors(u): the successors of u
Neighbors(adj, u) == {e[2] : e \in {x \in DOMAIN adj : x[1] = u}}

Event(op, args) == [op |-> op, args |-> args]

\* The value of "returned" after a step that is no direct call of the path planner
NoReturn == <<>>

----------------------------------------------------------------------------
(* Messages handed to datapath.send_msg *)

\* add_flow: OFPFlowMod(priority, match(eth_src, eth_dst), output(out_port), timeouts); mac 0 is the empty match
FlowMod(dpid, priority, eth_src, eth_dst, out_port, idle_timeout, hard_timeout) == [type |-> "flow_mod", dpid |-> dpid, priority |-> priority, eth_src |-> eth_src, eth_dst |-> eth_dst, out_port |-> out_port, idle_timeout |-> idle_timeout, hard_timeout |-> hard_timeout]

\* _request_port_stats: OFPPortStatsRequest(datapath, 0, OFPP_ANY)
StatsRequest(dpid) == [type |-> "stats_request", dpid |-> dpid]

\* OFPPacketOut(datapath, in_port, actions=[output(out_port)])
PacketOut(dpid, in_port, out_port) == [type |-> "packet_out", dpid |-> dpid, in_port |-> in_port, out_port |-> out_port]

----------------------------------------------------------------------------
(* The threads *)

\* A delayed_install thread as threading.Thread(target=delayed_install).start() leaves it
NewInstaller == [pc |-> "sleep", k |-> 0, src |-> 0, dst |-> 0, path |-> <<>>, i |-> 0, out_port |-> 0]

\* The monitor thread as __init__ starts it: about to sleep, iteration = 0
NewMonitor == [pc |-> "sleep", di_used |-> 0, todo |-> {}, dp |-> 0, iteration |-> 0]

\* The dict iterator of the monitor is live between iter() and its end
MonitorIterating == monitor.pc \in {"next", "request"}

----------------------------------------------------------------------------
(* Stage 1: datapath management *)

\* A _state_change_handler that also takes a disconnected switch out of the graph
state_change_handler_DropsNode(dpid, state) ==
    /\ datapaths' = IF state = "MAIN" THEN datapaths \cup {dpid} ELSE datapaths \ {dpid}
    /\ net_nodes' = IF state = "MAIN" THEN net_nodes ELSE net_nodes \ {dpid}
    /\ net_adj' = IF state = "MAIN" THEN net_adj ELSE RemoveNodeEdges(net_adj, dpid)
    /\ monitor' = IF MonitorIterating THEN [monitor EXCEPT !.todo = IF state = "MAIN" THEN IF dpid \in datapaths THEN @ ELSE @ \cup {dpid} ELSE @ \ {dpid}] ELSE monitor
    /\ returned' = NoReturn
    /\ ev' = Event("state_change", <<dpid, state>>)
    /\ sent' = <<>>
    /\ err' = "none"
    /\ UNCHANGED <<hosts, port_stats, proactive_flows_installed, installers, install_runs, nx_checks_target>>

\* _state_change_handler: MAIN_DISPATCHER adds the datapath, DEAD_DISPATCHER deletes it.
\* A live iterator over self.datapaths sees an inserted entry and no longer sees a deleted one.
state_change_handler(dpid, state) ==
    /\ datapaths' = IF state = "MAIN" THEN datapaths \cup {dpid} ELSE datapaths \ {dpid}
    /\ monitor' = IF MonitorIterating THEN [monitor EXCEPT !.todo = IF state = "MAIN" THEN IF dpid \in datapaths THEN @ ELSE @ \cup {dpid} ELSE @ \ {dpid}] ELSE monitor
    /\ returned' = NoReturn
    /\ ev' = Event("state_change", <<dpid, state>>)
    /\ sent' = <<>>
    /\ err' = "none"
    /\ UNCHANGED <<net_vars, hosts, port_stats, proactive_flows_installed, installers, install_runs, nx_checks_target>>

\* switch_features_handler: the table-miss entry, sent to the switch being configured
switch_features_handler(dpid) ==
    /\ returned' = NoReturn
    /\ ev' = Event("switch_features", <<dpid>>)
    /\ sent' = <<FlowMod(dpid, 0, 0, 0, OFPP_CONTROLLER, 0, 0)>>
    /\ err' = "none"
    /\ UNCHANGED <<net_vars, hosts, port_stats, datapaths, proactive_flows_installed, thread_vars, nx_checks_target>>

----------------------------------------------------------------------------
(* Stage 2: topology discovery *)

\* switch_enter_handler: self.net.add_node(dpid)
switch_enter_handler(dpid) ==
    /\ net_nodes' = net_nodes \cup {dpid}
    /\ returned' = NoReturn
    /\ ev' = Event("switch_enter", <<dpid>>)
    /\ sent' = <<>>
    /\ err' = "none"
    /\ UNCHANGED <<net_adj, hosts, port_stats, datapaths, proactive_flows_installed, thread_vars, nx_checks_target>>

\* A switch_leave_handler that also drops the host records of the switch that left
switch_leave_handler_ForgetsHosts(dpid) ==
    /\ net_nodes' = net_nodes \ {dpid}
    /\ net_adj' = IF dpid \in net_nodes THEN RemoveNodeEdges(net_adj, dpid) ELSE net_adj
    /\ hosts' = [m \in {x \in DOMAIN hosts : hosts[x][1] # dpid} |-> hosts[m]]
    /\ returned' = NoReturn
    /\ ev' = Event("switch_leave", <<dpid>>)
    /\ sent' = <<>>
    /\ err' = "none"
    /\ UNCHANGED <<port_stats, datapaths, proactive_flows_installed, thread_vars, nx_checks_target>>

\* switch_leave_handler: remove_node when the node is in the graph
switch_leave_handler(dpid) ==
    /\ net_nodes' = net_nodes \ {dpid}
    /\ net_adj' = IF dpid \in net_nodes THEN RemoveNodeEdges(net_adj, dpid) ELSE net_adj
    /\ returned' = NoReturn
    /\ ev' = Event("switch_leave", <<dpid>>)
    /\ sent' = <<>>
    /\ err' = "none"
    /\ UNCHANGED <<hosts, port_stats, datapaths, proactive_flows_installed, thread_vars, nx_checks_target>>

\* A link_add_handler that stores the source's port on both directed edges
LinkAddEdges_SamePort(adj, src_dpid, src_port, dst_dpid, dst_port) == AddEdge(AddEdge(adj, src_dpid, dst_dpid, src_port), dst_dpid, src_dpid, src_port)

\* The graph edges after the two add_edge calls of link_add_handler
LinkAddEdges(adj, src_dpid, src_port, dst_dpid, dst_port) == AddEdge(AddEdge(adj, src_dpid, dst_dpid, src_port), dst_dpid, src_dpid, dst_port)

\* The trigger of link_add_handler: flag unset and len(self.net.edges()) >= 10
InstallTrigger(adj) == ~proactive_flows_installed /\ Cardinality(DOMAIN adj) >= MinEdges

\* link_add_handler: both directed edges, then a delayed_install thread when the trigger holds
link_add_handler(src_dpid, src_port, dst_dpid, dst_port) ==
    /\ net_adj' = LinkAddEdges(net_adj, src_dpid, src_port, dst_dpid, dst_port)
    /\ net_nodes' = net_nodes \cup {src_dpid, dst_dpid}
    /\ InstallTrigger(net_adj') => Len(installers) < MaxThreads
    /\ installers' = IF InstallTrigger(net_adj') THEN Append(installers, NewInstaller) ELSE installers
    /\ returned' = NoReturn
    /\ ev' = Event("link_add", <<src_dpid, src_port, dst_dpid, dst_port>>)
    /\ sent' = <<>>
    /\ err' = "none"
    /\ UNCHANGED <<hosts, port_stats, datapaths, proactive_flows_installed, install_runs, monitor, nx_checks_target>>

\* A link_delete_handler that removes the edge src -> dst only
LinkDeleteEdges_OneWay(adj, src_dpid, dst_dpid) == RemoveEdge(adj, src_dpid, dst_dpid)

\* The graph edges after link_delete_handler: each direction removed when present
LinkDeleteEdges(adj, src_dpid, dst_dpid) == RemoveEdge(RemoveEdge(adj, src_dpid, dst_dpid), dst_dpid, src_dpid)

\* link_delete_handler
link_delete_handler(src_dpid, dst_dpid) ==
    /\ net_adj' = LinkDeleteEdges(net_adj, src_dpid, dst_dpid)
    /\ returned' = NoReturn
    /\ ev' = Event("link_delete", <<src_dpid, dst_dpid>>)
    /\ sent' = <<>>
    /\ err' = "none"
    /\ UNCHANGED <<net_nodes, hosts, port_stats, datapaths, proactive_flows_installed, thread_vars, nx_checks_target>>

----------------------------------------------------------------------------
(* Stage 4: path calculation *)

\* The elements of a set of integers in increasing order
RECURSIVE SortedSeq(_)
SortedSeq(S) == IF S = {} THEN <<>> ELSE LET m == CHOOSE x \in S : \A y \in S : x <= y IN <<m>> \o SortedSeq(S \ {m})

\* heappop(fringe): the entry <<distance, count, node>> that is least, distance first and count second
FringeMin(fringe) == CHOOSE x \in fringe : \A y \in fringe : RatLt(x[1], y[1]) \/ (x[1] = y[1] /\ x[2] <= y[2])

\* networkx's Dijkstra, the scan of the successors us of the node v just finished
RECURSIVE Relax(_, _, _, _)
Relax(adj, st, v, us) ==
    IF us = <<>> \/ st.exc # "none" THEN st
    ELSE LET u == Head(us)
             vu_dist == RatAdd(st.dist[v], adj[<<v, u>>].weight)
         IN  IF u \in DOMAIN st.dist
             THEN IF RatLt(vu_dist, st.dist[u]) THEN [st EXCEPT !.exc = "ValueError"] ELSE Relax(adj, st, v, Tail(us))
             ELSE IF u \notin DOMAIN st.seen \/ RatLt(vu_dist, st.seen[u])
                  THEN Relax(adj, [st EXCEPT !.seen = (u :> vu_dist) @@ @, !.fringe = @ \cup {<<vu_dist, st.c, u>>}, !.c = @ + 1, !.paths = (u :> Append(st.paths[v], u)) @@ @], v, Tail(us))
                  ELSE Relax(adj, st, v, Tail(us))

\* networkx's Dijkstra, the loop that pops the fringe until it is empty or the target is finished
RECURSIVE DijkstraLoop(_, _, _)
DijkstraLoop(adj, st, target) ==
    IF st.fringe = {} \/ st.exc # "none" THEN st
    ELSE LET top == FringeMin(st.fringe)
             rest == [st EXCEPT !.fringe = @ \ {top}]
             v == top[3]
         IN  IF v \in DOMAIN st.dist THEN DijkstraLoop(adj, rest, target)
             ELSE LET fin == [rest EXCEPT !.dist = (v :> top[1]) @@ @]
                  IN  IF v = target THEN fin ELSE DijkstraLoop(adj, Relax(adj, fin, v, SortedSeq(Neighbors(adj, v))), target)

\* The state Dijkstra starts from: the source seen at distance 0 and on the fringe
DijkstraStart(source) == [dist |-> <<>>, seen |-> (source :> RatInt(0)), paths |-> (source :> <<source>>), fringe |-> {<<RatInt(0), 0, source>>}, c |-> 1, exc |-> "none"]

\* nx.shortest_path(G, source, target, weight='weight'): the path, or the exception raised.
\* A source that is no node raises NodeNotFound; a target that is no node raises NodeNotFound
\* or NetworkXNoPath, by the networkx build (checks_target).
shortest_path(nodes, adj, source, target, checks_target) ==
    IF source \notin nodes \/ (target \notin nodes /\ checks_target) THEN [exc |-> "NodeNotFound", path |-> <<>>]
    ELSE LET st == DijkstraLoop(adj, DijkstraStart(source), target)
         IN  IF st.exc # "none" THEN [exc |-> st.exc, path |-> <<>>]
             ELSE IF target \in DOMAIN st.dist THEN [exc |-> "none", path |-> st.paths[target]]
             ELSE [exc |-> "NetworkXNoPath", path |-> <<>>]

\* A calculate_best_path without the src = dst return of lines 267-268
calculate_best_path_NoShortcut(nodes, adj, src_dpid, dst_dpid, checks_target) ==
    LET r == shortest_path(nodes, adj, src_dpid, dst_dpid, checks_target)
    IN  IF r.exc = "NetworkXNoPath" THEN [exc |-> "none", path |-> <<>>] ELSE r

\* calculate_best_path: [src] for src = dst, else the shortest path; NetworkXNoPath becomes
\* None (the empty path here) and every other exception leaves the function
calculate_best_path(nodes, adj, src_dpid, dst_dpid, checks_target) ==
    IF src_dpid = dst_dpid THEN [exc |-> "none", path |-> <<src_dpid>>]
    ELSE LET r == shortest_path(nodes, adj, src_dpid, dst_dpid, checks_target)
         IN  IF r.exc = "NetworkXNoPath" THEN [exc |-> "none", path |-> <<>>] ELSE r

----------------------------------------------------------------------------
(* Stage 5: flow installation *)

\* An output port that is the destination host's port on every switch of the path
PathOutPort_AlwaysLast(adj, path, i, last_out_port) == last_out_port

\* The output port _install_path_flows gives the i-th switch of the path (1-based): the
\* host port on the last switch, else the port of the edge to the next switch
PathOutPort(adj, path, i, last_out_port) == IF i = Len(path) THEN last_out_port ELSE adj[<<path[i], path[i + 1]>>].port

\* The rule _install_path_flows sends to the i-th switch of the path
PathFlowMod(adj, path, i, src_mac, dst_mac, last_out_port) == FlowMod(path[i], 1, src_mac, dst_mac, PathOutPort(adj, path, i, last_out_port), 0, 0)

\* An _install_path_flows that ends at the first switch that is not in self.datapaths
RECURSIVE PathFlowsFrom_AbortAtDisconnected(_, _, _, _, _, _, _)
PathFlowsFrom_AbortAtDisconnected(dps, adj, path, i, src_mac, dst_mac, last_out_port) ==
    IF i > Len(path) THEN [exc |-> "none", msgs |-> <<>>]
    ELSE IF path[i] \notin dps THEN [exc |-> "none", msgs |-> <<>>]
    ELSE IF i < Len(path) /\ <<path[i], path[i + 1]>> \notin DOMAIN adj THEN [exc |-> "KeyError", msgs |-> <<>>]
    ELSE LET rest == PathFlowsFrom_AbortAtDisconnected(dps, adj, path, i + 1, src_mac, dst_mac, last_out_port)
         IN  [exc |-> rest.exc, msgs |-> <<PathFlowMod(adj, path, i, src_mac, dst_mac, last_out_port)>> \o rest.msgs]

\* _install_path_flows from the i-th switch on: the rules sent, and the KeyError that ends
\* the loop when the edge to the next switch is not in the graph
RECURSIVE PathFlowsFrom(_, _, _, _, _, _, _)
PathFlowsFrom(dps, adj, path, i, src_mac, dst_mac, last_out_port) ==
    IF i > Len(path) THEN [exc |-> "none", msgs |-> <<>>]
    ELSE IF path[i] \notin dps THEN PathFlowsFrom(dps, adj, path, i + 1, src_mac, dst_mac, last_out_port)
    ELSE IF i < Len(path) /\ <<path[i], path[i + 1]>> \notin DOMAIN adj THEN [exc |-> "KeyError", msgs |-> <<>>]
    ELSE LET rest == PathFlowsFrom(dps, adj, path, i + 1, src_mac, dst_mac, last_out_port)
         IN  [exc |-> rest.exc, msgs |-> <<PathFlowMod(adj, path, i, src_mac, dst_mac, last_out_port)>> \o rest.msgs]

\* An _install_path_flows that installs the rule of the first switch of the path only
install_path_flows_FirstOnly(dps, adj, path, src_mac, dst_mac, first_in_port, last_out_port) == IF path[1] \in dps /\ <<path[1], path[2]>> \in DOMAIN adj THEN [exc |-> "none", msgs |-> <<PathFlowMod(adj, path, 1, src_mac, dst_mac, last_out_port)>>] ELSE [exc |-> "none", msgs |-> <<>>]

\* _install_path_flows(path, src_mac, dst_mac, first_in_port, last_out_port), run to its end
install_path_flows(dps, adj, path, src_mac, dst_mac, first_in_port, last_out_port) == PathFlowsFrom(dps, adj, path, 1, src_mac, dst_mac, last_out_port)

----------------------------------------------------------------------------
(* Stage 6: packet handling *)

\* A host table that keeps the first record of an address
LearnHost_KeepFirst(h, src, dpid, in_port) == h @@ (src :> <<dpid, in_port>>)

\* self.hosts[src] = (dpid, in_port)
LearnHost(h, src, dpid, in_port) == (src :> <<dpid, in_port>>) @@ h

\* A _packet_in_handler that sends nothing for a destination without host record
PacketInOutcome_DropUnknown(h, nodes, adj, dps, checks_target, dpid, in_port, src, dst) ==
    IF dst \notin DOMAIN h THEN [exc |-> "none", msgs |-> <<>>]
    ELSE LET dst_dpid == h[dst][1]
             dst_port == h[dst][2]
         IN  IF dpid = dst_dpid THEN [exc |-> "none", msgs |-> <<PacketOut(dpid, in_port, dst_port)>>]
             ELSE LET r == calculate_best_path(nodes, adj, dpid, dst_dpid, checks_target)
                  IN  IF r.exc # "none" THEN [exc |-> r.exc, msgs |-> <<>>]
                      ELSE IF Len(r.path) >= 2
                      THEN IF <<dpid, r.path[2]>> \notin DOMAIN adj THEN [exc |-> "KeyError", msgs |-> <<>>]
                           ELSE LET f == install_path_flows(dps, adj, r.path, src, dst, in_port, dst_port)
                                IN  IF f.exc # "none" THEN f ELSE [exc |-> "none", msgs |-> Append(f.msgs, PacketOut(dpid, in_port, adj[<<dpid, r.path[2]>>].port))]
                      ELSE [exc |-> "none", msgs |-> <<PacketOut(dpid, in_port, OFPP_FLOOD)>>]

\* A _packet_in_handler without the test dpid == dst_dpid: every known destination goes
\* through calculate_best_path
PacketInOutcome_AlwaysPlan(h, nodes, adj, dps, checks_target, dpid, in_port, src, dst) ==
    IF dst \notin DOMAIN h THEN [exc |-> "none", msgs |-> <<PacketOut(dpid, in_port, OFPP_FLOOD)>>]
    ELSE LET dst_dpid == h[dst][1]
             dst_port == h[dst][2]
             r == calculate_best_path(nodes, adj, dpid, dst_dpid, checks_target)
         IN  IF r.exc # "none" THEN [exc |-> r.exc, msgs |-> <<>>]
             ELSE IF Len(r.path) >= 2
             THEN IF <<dpid, r.path[2]>> \notin DOMAIN adj THEN [exc |-> "KeyError", msgs |-> <<>>]
                  ELSE LET f == install_path_flows(dps, adj, r.path, src, dst, in_port, dst_port)
                       IN  IF f.exc # "none" THEN f ELSE [exc |-> "none", msgs |-> Append(f.msgs, PacketOut(dpid, in_port, adj[<<dpid, r.path[2]>>].port))]
             ELSE [exc |-> "none", msgs |-> <<PacketOut(dpid, in_port, OFPP_FLOOD)>>]

\* _packet_in_handler after the source is learnt (h is the host table then): the messages
\* sent, rules first and the packet-out last, or the exception that ends the handler
PacketInOutcome(h, nodes, adj, dps, checks_target, dpid, in_port, src, dst) ==
    IF dst \notin DOMAIN h THEN [exc |-> "none", msgs |-> <<PacketOut(dpid, in_port, OFPP_FLOOD)>>]
    ELSE LET dst_dpid == h[dst][1]
             dst_port == h[dst][2]
         IN  IF dpid = dst_dpid THEN [exc |-> "none", msgs |-> <<PacketOut(dpid, in_port, dst_port)>>]
             ELSE LET r == calculate_best_path(nodes, adj, dpid, dst_dpid, checks_target)
                  IN  IF r.exc # "none" THEN [exc |-> r.exc, msgs |-> <<>>]
                      ELSE IF Len(r.path) >= 2
                      THEN IF <<dpid, r.path[2]>> \notin DOMAIN adj THEN [exc |-> "KeyError", msgs |-> <<>>]
                           ELSE LET f == install_path_flows(dps, adj, r.path, src, dst, in_port, dst_port)
                                IN  IF f.exc # "none" THEN f ELSE [exc |-> "none", msgs |-> Append(f.msgs, PacketOut(dpid, in_port, adj[<<dpid, r.path[2]>>].port))]
                      ELSE [exc |-> "none", msgs |-> <<PacketOut(dpid, in_port, OFPP_FLOOD)>>]

\* A _packet_in_handler that records the source of an LLDP frame before it returns
packet_in_handler_LearnsLLDP(dpid, in_port, src, dst, lldp) ==
    LET out == PacketInOutcome(LearnHost(hosts, src, dpid, in_port), net_nodes, net_adj, datapaths, nx_checks_target, dpid, in_port, src, dst)
    IN  /\ hosts' = LearnHost(hosts, src, dpid, in_port)
        /\ sent' = IF lldp THEN <<>> ELSE out.msgs
        /\ err' = IF lldp THEN "none" ELSE out.exc
        /\ returned' = NoReturn
        /\ ev' = Event("packet_in", <<dpid, in_port, src, dst, lldp>>)
        /\ UNCHANGED <<net_vars, port_stats, datapaths, proactive_flows_installed, thread_vars, nx_checks_target>>

\* _packet_in_handler, registered for MAIN_DISPATCHER: an LLDP frame returns at once, any
\* other frame teaches the source and is forwarded
packet_in_handler(dpid, in_port, src, dst, lldp) ==
    LET out == PacketInOutcome(LearnHost(hosts, src, dpid, in_port), net_nodes, net_adj, datapaths, nx_checks_target, dpid, in_port, src, dst)
    IN  /\ hosts' = IF lldp THEN hosts ELSE LearnHost(hosts, src, dpid, in_port)
        /\ sent' = IF lldp THEN <<>> ELSE out.msgs
        /\ err' = IF lldp THEN "none" ELSE out.exc
        /\ returned' = NoReturn
        /\ ev' = Event("packet_in", <<dpid, in_port, src, dst, lldp>>)
        /\ UNCHANGED <<net_vars, port_stats, datapaths, proactive_flows_installed, thread_vars, nx_checks_target>>

----------------------------------------------------------------------------
(* Stage 3: traffic monitoring, the stats reply *)

\* One entry of ev.msg.body
Stat(port_no, tx_bytes, rx_bytes) == [port_no |-> port_no, tx_bytes |-> tx_bytes, rx_bytes |-> rx_bytes]

\* The sample stored in self.port_stats
Sample(stat, curr_time) == [tx_bytes |-> stat.tx_bytes, rx_bytes |-> stat.rx_bytes, timestamp |-> curr_time]

\* throughput_mbps = (tx_speed + rx_speed) * 8 / 1_000_000, the speeds being byte deltas over time_diff
Throughput(stat, prev, time_diff) == RatDiv(RatMul(RatAdd(Rat(stat.tx_bytes - prev.tx_bytes, time_diff), Rat(stat.rx_bytes - prev.rx_bytes, time_diff)), RatInt(8)), RatInt(1000000))

\* A utilization that is not bounded by 1
Utilization_Unbounded(throughput_mbps, capacity) == RatDiv(throughput_mbps, RatInt(capacity))

\* utilization = min(throughput_mbps / capacity, 1.0)
Utilization(throughput_mbps, capacity) == RatMin(RatDiv(throughput_mbps, RatInt(capacity)), RatInt(1))

\* new_weight = 1 + (utilization * 10)
NewWeight(utilization) == RatAdd(RatInt(1), RatMul(utilization, RatInt(10)))

\* A loop over self.net.neighbors(dpid) that gives every edge out of dpid the new weight, whatever its port
UpdateWeights_AllPorts(adj, dpid, port_no, throughput_mbps) == [e \in DOMAIN adj |-> IF e[1] = dpid THEN [adj[e] EXCEPT !.weight = NewWeight(Utilization(throughput_mbps, adj[e].capacity))] ELSE adj[e]]

\* The loop over self.net.neighbors(dpid): every edge out of dpid whose port is port_no gets the new weight
UpdateWeights(adj, dpid, port_no, throughput_mbps) == [e \in DOMAIN adj |-> IF e[1] = dpid /\ adj[e].port = port_no THEN [adj[e] EXCEPT !.weight = NewWeight(Utilization(throughput_mbps, adj[e].capacity))] ELSE adj[e]]

\* A pass of the loop that updates the weights whenever the elapsed time is not zero
StatStep_AnyElapsed(st, nodes, dpid, stat, curr_time) ==
    LET key == <<dpid, stat.port_no>>
        known == key \in DOMAIN st.stats
        time_diff == IF known THEN curr_time - st.stats[key].timestamp ELSE 0
        stored == [st EXCEPT !.stats = (key :> Sample(stat, curr_time)) @@ @]
    IN  IF stat.port_no = OFPP_LOCAL THEN st
        ELSE IF known /\ time_diff # 0
        THEN IF dpid \notin nodes THEN [st EXCEPT !.exc = "NetworkXError"]
             ELSE [stored EXCEPT !.adj = UpdateWeights(st.adj, dpid, stat.port_no, Throughput(stat, st.stats[key], time_diff))]
        ELSE stored

\* One pass of the loop "for stat in body" of _port_stats_reply_handler; st holds the graph
\* edges, the stats store and the exception so far.  self.net.neighbors(dpid) raises
\* NetworkXError when dpid is no node of the graph.
StatStep(st, nodes, dpid, stat, curr_time) ==
    LET key == <<dpid, stat.port_no>>
        known == key \in DOMAIN st.stats
        time_diff == IF known THEN curr_time - st.stats[key].timestamp ELSE 0
        stored == [st EXCEPT !.stats = (key :> Sample(stat, curr_time)) @@ @]
    IN  IF stat.port_no = OFPP_LOCAL THEN st
        ELSE IF known /\ time_diff > 0
        THEN IF dpid \notin nodes THEN [st EXCEPT !.exc = "NetworkXError"]
             ELSE [stored EXCEPT !.adj = UpdateWeights(st.adj, dpid, stat.port_no, Throughput(stat, st.stats[key], time_diff))]
        ELSE stored

\* The loop "for stat in body", left at the first exception; clock[j] is what time.time() returns for body[j]
RECURSIVE StatLoop(_, _, _, _, _, _)
StatLoop(st, nodes, dpid, body, clock, j) ==
    IF j > Len(body) \/ st.exc # "none" THEN st
    ELSE StatLoop(StatStep(st, nodes, dpid, body[j], clock[j]), nodes, dpid, body, clock, j + 1)

\* _port_stats_reply_handler, registered for MAIN_DISPATCHER
port_stats_reply_handler(dpid, body, clock) ==
    LET st == StatLoop([adj |-> net_adj, stats |-> port_stats, exc |-> "none"], net_nodes, dpid, body, clock, 1)
    IN  /\ net_adj' = st.adj
        /\ port_stats' = st.stats
        /\ err' = st.exc
        /\ sent' = <<>>
        /\ returned' = NoReturn
        /\ ev' = Event("port_stats_reply", <<dpid, body, clock>>)
        /\ UNCHANGED <<net_nodes, hosts, datapaths, proactive_flows_installed, thread_vars, nx_checks_target>>

----------------------------------------------------------------------------
(* Stage 3: traffic monitoring, the monitor thread *)

\* _monitor_loop: time.sleep(5) returns and the for statement takes an iterator over
\* self.datapaths.values(), which remembers the size of the dict
monitor_wake ==
    /\ monitor.pc = "sleep"
    /\ monitor' = [monitor EXCEPT !.pc = "next", !.di_used = Cardinality(datapaths), !.todo = datapaths]
    /\ returned' = NoReturn
    /\ ev' = Event("monitor_wake", <<>>)
    /\ sent' = <<>>
    /\ err' = "none"
    /\ UNCHANGED <<net_vars, hosts, port_stats, datapaths, proactive_flows_installed, installers, install_runs, nx_checks_target>>

\* What next() on the dict iterator does to the thread: RuntimeError when the dict changed
\* size since iter(), the end of the loop when no entry is left, else the entry dp
MonitorAfterNext(m, dps, dp) ==
    IF m.di_used # Cardinality(dps) THEN [m EXCEPT !.pc = "dead", !.di_used = 0, !.todo = {}, !.dp = 0]
    ELSE IF m.todo = {} THEN [m EXCEPT !.pc = "log", !.di_used = 0, !.dp = 0]
    ELSE [m EXCEPT !.pc = "request", !.dp = dp, !.todo = @ \ {dp}]

\* _monitor_loop: the for statement asks the iterator for the next datapath
monitor_next ==
    /\ monitor.pc = "next"
    /\ \E dp \in (IF monitor.todo = {} THEN {0} ELSE monitor.todo) : monitor' = MonitorAfterNext(monitor, datapaths, dp)
    /\ returned' = NoReturn
    /\ ev' = Event("monitor_next", <<>>)
    /\ sent' = <<>>
    /\ err' = IF monitor'.pc = "dead" THEN "RuntimeError" ELSE "none"
    /\ UNCHANGED <<net_vars, hosts, port_stats, datapaths, proactive_flows_installed, installers, install_runs, nx_checks_target>>

\* _monitor_loop: self._request_port_stats(dp) sends the request to the datapath it holds
monitor_request ==
    /\ monitor.pc = "request"
    /\ monitor' = [monitor EXCEPT !.pc = "next"]
    /\ returned' = NoReturn
    /\ ev' = Event("monitor_request", <<monitor.dp>>)
    /\ sent' = <<StatsRequest(monitor.dp)>>
    /\ err' = "none"
    /\ UNCHANGED <<net_vars, hosts, port_stats, datapaths, proactive_flows_installed, installers, install_runs, nx_checks_target>>

\* _monitor_loop: the topology log every 6th pass (it only reads), then iteration += 1;
\* only iteration % 6 is ever read, so that is what is kept
monitor_log ==
    /\ monitor.pc = "log"
    /\ monitor' = [monitor EXCEPT !.pc = "sleep", !.iteration = (@ + 1) % LogEvery]
    /\ returned' = NoReturn
    /\ ev' = Event("monitor_log", <<>>)
    /\ sent' = <<>>
    /\ err' = "none"
    /\ UNCHANGED <<net_vars, hosts, port_stats, datapaths, proactive_flows_installed, installers, install_runs, nx_checks_target>>

----------------------------------------------------------------------------
(* Stage 5: proactive installation, the delayed_install threads *)

\* known_hosts of _install_proactive_flows; mac k stands for 00:00:00:00:00:0k
known_hosts == (1 :> <<2, 4>>) @@ (2 :> <<7, 1>>) @@ (3 :> <<7, 2>>) @@ (4 :> <<8, 1>>) @@ (5 :> <<8, 2>>) @@ (6 :> <<9, 1>>) @@ (7 :> <<9, 2>>) @@ (8 :> <<10, 1>>) @@ (9 :> <<10, 2>>)

\* The registry entries the model installs: the first NumKnownHosts of known_hosts.items()
KnownMacs == 1..NumKnownHosts

\* The pair the two nested loops over known_hosts.items() take up after <<src, dst>>,
\* src_mac == dst_mac skipped; <<0, 0>> when the loops are over
RECURSIVE PairAfter(_, _)
PairAfter(src, dst) ==
    IF dst < NumKnownHosts THEN (IF dst + 1 = src THEN PairAfter(src, dst + 1) ELSE <<src, dst + 1>>)
    ELSE IF src < NumKnownHosts THEN PairAfter(src + 1, 0)
    ELSE <<0, 0>>

\* The thread moves on to the pair p, or to the end of _install_proactive_flows
InstallerAtPair(th, p) == IF p = <<0, 0>> THEN [NewInstaller EXCEPT !.pc = "set_flag"] ELSE [NewInstaller EXCEPT !.pc = "calc", !.src = p[1], !.dst = p[2]]

\* The thread is done with path[i]: the next switch of the path, or the next pair
InstallerAfterSwitch(th) == IF th.i < Len(th.path) THEN [th EXCEPT !.pc = "member", !.i = @ + 1, !.out_port = 0] ELSE InstallerAtPair(th, PairAfter(th.src, th.dst))

\* The thread ends with an uncaught exception
InstallerDead == [NewInstaller EXCEPT !.pc = "dead"]

\* What every step of installer t leaves alone unless it says otherwise
InstallerStep(t, th) == installers' = [installers EXCEPT ![t] = th]

\* delayed_install: time.sleep(3) returns
installer_wake(t) ==
    /\ installers[t].pc = "sleep"
    /\ InstallerStep(t, [installers[t] EXCEPT !.pc = "check"])
    /\ returned' = NoReturn
    /\ ev' = Event("installer_wake", <<t>>)
    /\ sent' = <<>>
    /\ err' = "none"
    /\ UNCHANGED <<net_vars, hosts, port_stats, datapaths, proactive_flows_installed, install_runs, monitor, nx_checks_target>>

\* delayed_install: "if not self.proactive_flows_installed" and, when unset, the call of _install_proactive_flows
installer_check(t) ==
    /\ installers[t].pc = "check"
    /\ InstallerStep(t, IF proactive_flows_installed THEN [NewInstaller EXCEPT !.pc = "done"] ELSE [NewInstaller EXCEPT !.pc = "store", !.k = 1])
    /\ install_runs' = IF proactive_flows_installed THEN install_runs ELSE install_runs + 1
    /\ returned' = NoReturn
    /\ ev' = Event("installer_check", <<t>>)
    /\ sent' = <<>>
    /\ err' = "none"
    /\ UNCHANGED <<net_vars, hosts, port_stats, datapaths, proactive_flows_installed, monitor, nx_checks_target>>

\* An installer that leaves the record of an address that packet-ins have taught already
installer_store_KeepsLearnt(t) ==
    /\ installers[t].pc = "store"
    /\ hosts' = hosts @@ (installers[t].k :> known_hosts[installers[t].k])
    /\ InstallerStep(t, IF installers[t].k < NumKnownHosts THEN [installers[t] EXCEPT !.k = @ + 1] ELSE InstallerAtPair(installers[t], PairAfter(1, 0)))
    /\ returned' = NoReturn
    /\ ev' = Event("installer_store", <<t>>)
    /\ sent' = <<>>
    /\ err' = "none"
    /\ UNCHANGED <<net_vars, port_stats, datapaths, proactive_flows_installed, install_runs, monitor, nx_checks_target>>

\* _install_proactive_flows: self.hosts[mac] = (dpid, port), one registry entry per step
installer_store(t) ==
    /\ installers[t].pc = "store"
    /\ hosts' = (installers[t].k :> known_hosts[installers[t].k]) @@ hosts
    /\ InstallerStep(t, IF installers[t].k < NumKnownHosts THEN [installers[t] EXCEPT !.k = @ + 1] ELSE InstallerAtPair(installers[t], PairAfter(1, 0)))
    /\ returned' = NoReturn
    /\ ev' = Event("installer_store", <<t>>)
    /\ sent' = <<>>
    /\ err' = "none"
    /\ UNCHANGED <<net_vars, port_stats, datapaths, proactive_flows_installed, install_runs, monitor, nx_checks_target>>

\* The thread after "path = self.calculate_best_path(src_dpid, dst_dpid)" returned r
InstallerAfterCalc(th, r) ==
    IF r.exc # "none" THEN InstallerDead
    ELSE IF r.path = <<>> THEN InstallerAtPair(th, PairAfter(th.src, th.dst))
    ELSE [th EXCEPT !.pc = "member", !.path = r.path, !.i = 1]

\* _install_proactive_flows: the path of the current pair
installer_calc(t) ==
    LET th == installers[t]
        r == calculate_best_path(net_nodes, net_adj, known_hosts[th.src][1], known_hosts[th.dst][1], nx_checks_target)
    IN  /\ th.pc = "calc"
        /\ InstallerStep(t, InstallerAfterCalc(th, r))
        /\ returned' = NoReturn
        /\ ev' = Event("installer_calc", <<t>>)
        /\ sent' = <<>>
        /\ err' = r.exc
        /\ UNCHANGED <<net_vars, hosts, port_stats, datapaths, proactive_flows_installed, install_runs, monitor, nx_checks_target>>

\* _install_path_flows: "if dpid not in self.datapaths: continue"
installer_member(t) ==
    LET th == installers[t]
    IN  /\ th.pc = "member"
        /\ InstallerStep(t, IF th.path[th.i] \in datapaths THEN [th EXCEPT !.pc = "fetch"] ELSE InstallerAfterSwitch(th))
        /\ returned' = NoReturn
        /\ ev' = Event("installer_member", <<t>>)
        /\ sent' = <<>>
        /\ err' = "none"
        /\ UNCHANGED <<net_vars, hosts, port_stats, datapaths, proactive_flows_installed, install_runs, monitor, nx_checks_target>>

\* The thread after "datapath = self.datapaths[dpid]": KeyError when the key is gone; on the
\* last switch the output port is last_out_port, the port of the destination host
InstallerAfterFetch(th, dps) ==
    IF th.path[th.i] \notin dps THEN InstallerDead
    ELSE IF th.i = Len(th.path) THEN [th EXCEPT !.pc = "send", !.out_port = known_hosts[th.dst][2]]
    ELSE [th EXCEPT !.pc = "port"]

\* _install_path_flows: "datapath = self.datapaths[dpid]"
installer_fetch(t) ==
    /\ installers[t].pc = "fetch"
    /\ InstallerStep(t, InstallerAfterFetch(installers[t], datapaths))
    /\ returned' = NoReturn
    /\ ev' = Event("installer_fetch", <<t>>)
    /\ sent' = <<>>
    /\ err' = IF installers'[t].pc = "dead" THEN "KeyError" ELSE "none"
    /\ UNCHANGED <<net_vars, hosts, port_stats, datapaths, proactive_flows_installed, install_runs, monitor, nx_checks_target>>

\* The thread after "out_port = self.net[dpid][next_dpid]['port']": KeyError when the edge is gone
InstallerAfterPort(th, adj) ==
    IF <<th.path[th.i], th.path[th.i + 1]>> \notin DOMAIN adj THEN InstallerDead
    ELSE [th EXCEPT !.pc = "send", !.out_port = adj[<<th.path[th.i], th.path[th.i + 1]>>].port]

\* _install_path_flows: the port of the edge to the next switch of the path
installer_port(t) ==
    /\ installers[t].pc = "port"
    /\ InstallerStep(t, InstallerAfterPort(installers[t], net_adj))
    /\ returned' = NoReturn
    /\ ev' = Event("installer_port", <<t>>)
    /\ sent' = <<>>
    /\ err' = IF installers'[t].pc = "dead" THEN "KeyError" ELSE "none"
    /\ UNCHANGED <<net_vars, hosts, port_stats, datapaths, proactive_flows_installed, install_runs, monitor, nx_checks_target>>

\* _install_path_flows: add_flow sends the rule to the datapath fetched before
installer_send(t) ==
    LET th == installers[t]
    IN  /\ th.pc = "send"
        /\ InstallerStep(t, InstallerAfterSwitch(th))
        /\ returned' = NoReturn
        /\ ev' = Event("installer_send", <<t>>)
        /\ sent' = <<FlowMod(th.path[th.i], 1, th.src, th.dst, th.out_port, 0, 0)>>
        /\ err' = "none"
        /\ UNCHANGED <<net_vars, hosts, port_stats, datapaths, proactive_flows_installed, install_runs, monitor, nx_checks_target>>

\* delayed_install: "self.proactive_flows_installed = True" after _install_proactive_flows returned
installer_set_flag(t) ==
    /\ installers[t].pc = "set_flag"
    /\ InstallerStep(t, [NewInstaller EXCEPT !.pc = "done"])
    /\ proactive_flows_installed' = TRUE
    /\ returned' = NoReturn
    /\ ev' = Event("installer_set_flag", <<t>>)
    /\ sent' = <<>>
    /\ err' = "none"
    /\ UNCHANGED <<net_vars, hosts, port_stats, datapaths, install_runs, monitor, nx_checks_target>>

----------------------------------------------------------------------------
(* A direct call of the path planner *)

\* calculate_best_path(src_dpid, dst_dpid) called on the current graph; it only reads
best_path_call(src_dpid, dst_dpid) ==
    LET r == calculate_best_path(net_nodes, net_adj, src_dpid, dst_dpid, nx_checks_target)
    IN  /\ returned' = r.path
        /\ ev' = Event("best_path", <<src_dpid, dst_dpid>>)
        /\ sent' = <<>>
        /\ err' = r.exc
        /\ UNCHANGED <<net_vars, hosts, port_stats, datapaths, proactive_flows_installed, thread_vars, nx_checks_target>>

----------------------------------------------------------------------------
(* Specifications *)

\* The state __init__ leaves: empty graph and tables, flag unset, the monitor thread started
Init ==
    /\ net_nodes = {}
    /\ net_adj = <<>>
    /\ hosts = <<>>
    /\ port_stats = <<>>
    /\ datapaths = {}
    /\ proactive_flows_installed = FALSE
    /\ installers = <<>>
    /\ install_runs = 0
    /\ monitor = NewMonitor
    /\ nx_checks_target \in BOOLEAN
    /\ returned = NoReturn
    /\ ev = Event("init", <<>>)
    /\ sent = <<>>
    /\ err = "none"

\* The links of the network the event loop is fed from in Spec: three switches in a triangle
Links == {<<1, 1, 2, 1>>, <<2, 2, 3, 1>>, <<1, 2, 3, 2>>}

\* The ports hosts are attached to in Spec, <<dpid, port>>
Attachments == {<<1, 1>>, <<3, 1>>, <<3, 2>>}

\* The frames of the packet-ins in Spec, <<src, dst, is LLDP>>: every pair of host addresses, and one discovery frame
Frames == {<<s, t, FALSE>> : s \in Macs, t \in Macs} \cup {<<1, 1, TRUE>>}

\* The event loop: connections, topology events over Links, and packet-ins from connected switches
Next ==
    \/ \E d \in Dpids, st \in {"MAIN", "DEAD"} : state_change_handler(d, st)
    \/ \E d \in Dpids : switch_enter_handler(d)
    \/ \E d \in Dpids : switch_leave_handler(d)
    \/ \E l \in Links : link_add_handler(l[1], l[2], l[3], l[4])
    \/ \E l \in Links : link_delete_handler(l[1], l[3])
    \/ \E a \in {x \in Attachments : x[1] \in datapaths}, f \in Frames : packet_in_handler(a[1], a[2], f[1], f[2], f[3])

Spec == Init /\ [][Next]_vars

\* The switch pairs of the link events in SpecTopo: every two switches, and switch 1 cabled to itself
TopoLinkEnds == {<<a, b>> \in Dpids \X Dpids : a < b} \cup {<<1, 1>>}

\* Topology events with any ports, a link from a switch to itself included, and direct calls of the path planner
NextTopo ==
    \/ \E d \in Dpids : switch_enter_handler(d)
    \/ \E d \in Dpids : switch_leave_handler(d)
    \/ \E l \in TopoLinkEnds, pa \in Ports, pb \in Ports : link_add_handler(l[1], pa, l[2], pb)
    \/ \E l \in TopoLinkEnds : link_delete_handler(l[1], l[2])
    \/ \E a \in Dpids, b \in Dpids : best_path_call(a, b)

SpecTopo == Init /\ [][NextTopo]_vars

\* The byte counters of the replies: multiples of what fills half a 100 Mbps link in one second
ByteStep == (50 * 1000000) \div 8

\* The links of SpecStats: port 1 of switch 1 is reported both towards switch 2 and towards switch 3
StatLinks == {<<1, 1, 2, 1>>, <<1, 2, 3, 1>>, <<1, 1, 3, 2>>}

\* The entries of the replies in SpecStats: port 1 and the local port
StatEntries == {Stat(p, tx * ByteStep, rx * ByteStep) : p \in {1, OFPP_LOCAL}, tx \in {0, 2}, rx \in {0, 1}}

\* The replies in SpecStats, <<body, clock>>: one entry, or the local port's entry before another
StatReplies == {<<<<e>>, <<t>>>> : e \in StatEntries, t \in 0..MaxTime} \cup {<<<<l, e>>, <<t, t>>>> : l \in {x \in StatEntries : x.port_no = OFPP_LOCAL /\ x.tx_bytes = 0 /\ x.rx_bytes = 0}, e \in {x \in StatEntries : x.port_no = 1}, t \in 0..MaxTime}

\* Link events and the stats replies of switch 1, which may have left the graph
NextStats ==
    \/ \E l \in StatLinks : link_add_handler(l[1], l[2], l[3], l[4])
    \/ switch_leave_handler(1)
    \/ \E r \in StatReplies : port_stats_reply_handler(1, r[1], r[2])

SpecStats == Init /\ [][NextStats]_vars

\* The replies in SpecRoute: port 1 of a switch, with a transmit counter that rises or falls
RouteReplies == {<<<<Stat(1, tx * ByteStep, 0)>>, <<t>>>> : tx \in {0, 2}, t \in 0..MaxTime}

\* Link events over Links, stats replies that move the weights, and direct calls of the path planner
NextRoute ==
    \/ \E l \in Links : link_add_handler(l[1], l[2], l[3], l[4])
    \/ \E d \in {1, 3}, r \in RouteReplies : port_stats_reply_handler(d, r[1], r[2])
    \/ \E a \in Dpids, b \in Dpids : a # b /\ best_path_call(a, b)

SpecRoute == Init /\ [][NextRoute]_vars

\* The monitor thread beside the connections and disconnections of the switches
NextMonitor ==
    \/ \E d \in Dpids, st \in {"MAIN", "DEAD"} : state_change_handler(d, st)
    \/ \E d \in Dpids : switch_features_handler(d)
    \/ monitor_wake
    \/ monitor_next
    \/ monitor_request
    \/ monitor_log

SpecMonitor == Init /\ [][NextMonitor]_vars

\* The monitor thread is scheduled again and again
FairSpecMonitor == SpecMonitor /\ WF_vars(monitor_wake) /\ WF_vars(monitor_next) /\ WF_vars(monitor_request) /\ WF_vars(monitor_log)

\* The links of SpecInstall: five links, ten directed edges, between four switches
InstallLinks == {<<1, 1, 2, 1>>, <<1, 2, 7, 1>>, <<2, 2, 7, 2>>, <<2, 3, 8, 1>>, <<7, 3, 8, 2>>}

\* The step of an installer thread that is enabled
installer_thread(t) ==
    \/ installer_wake(t)
    \/ installer_check(t)
    \/ installer_store(t)
    \/ installer_calc(t)
    \/ installer_member(t)
    \/ installer_fetch(t)
    \/ installer_port(t)
    \/ installer_send(t)
    \/ installer_set_flag(t)

\* Link discovery that arms the installers, the installer threads, and the events they race with
NextInstall ==
    \/ \E l \in InstallLinks : link_add_handler(l[1], l[2], l[3], l[4])
    \/ link_delete_handler(2, 7)
    \/ \E d \in {2, 7}, st \in {"MAIN", "DEAD"} : state_change_handler(d, st)
    \/ \E t \in 1..Len(installers) : installer_thread(t)

SpecInstall == Init /\ [][NextInstall]_vars

\* The links of SpecBulk: any five of them make ten directed edges, so the installers can
\* be armed while switch 7, where the second registered host sits, is not yet discovered
BulkLinks == {<<1, 1, 2, 1>>, <<1, 2, 8, 1>>, <<2, 2, 8, 2>>, <<1, 3, 3, 1>>, <<2, 3, 3, 2>>, <<2, 4, 7, 2>>}

\* The packet-ins of SpecBulk, <<dpid, in_port, src, dst>>: a registered address seen at
\* another place than the registry's, and an address that is not registered
BulkPacketIns == {<<2, 1, 1, 1>>, <<2, 1, NumKnownHosts + 1, 1>>}

\* Link discovery that arms the installers, the connection of switch 2, packet-ins that
\* teach host locations, and the installer threads
NextBulk ==
    \/ \E l \in BulkLinks : link_add_handler(l[1], l[2], l[3], l[4])
    \/ state_change_handler(2, "MAIN")
    \/ \E f \in {x \in BulkPacketIns : x[1] \in datapaths} : packet_in_handler(f[1], f[2], f[3], f[4], FALSE)
    \/ \E t \in 1..Len(installers) : installer_thread(t)

SpecBulk == Init /\ [][NextBulk]_vars

----------------------------------------------------------------------------
(* Notions the properties are stated with *)

\* The messages of one type among those the last step sent
SentOf(type) == SelectSeq(sent, LAMBDA m : m.type = type)

\* The simple routes that extend p to b along edges of the graph
RECURSIVE RoutesFrom(_, _, _)
RoutesFrom(adj, p, b) ==
    IF p[Len(p)] = b THEN {p}
    ELSE UNION {RoutesFrom(adj, Append(p, u), b) : u \in {x \in Neighbors(adj, p[Len(p)]) : \A j \in 1..Len(p) : p[j] # x}}

\* The simple routes from a to b
Routes(adj, a, b) == RoutesFrom(adj, <<a>>, b)

\* The total weight of a route
RECURSIVE RouteWeight(_, _)
RouteWeight(adj, p) == IF Len(p) < 2 THEN RatInt(0) ELSE RatAdd(adj[<<p[1], p[2]>>].weight, RouteWeight(adj, Tail(p)))

\* A weight lies in [1, 11]
WeightInRange(w) == RatLe(RatInt(1), w) /\ RatLe(w, RatInt(11))

----------------------------------------------------------------------------
(* Properties *)

\* C1: _install_proactive_flows is entered at most once in a run, however many
\* delayed_install threads the link-add events armed and however they interleave.
C1_InstallAtMostOnce == install_runs <= 1

\* C2: a packet-in with a data frame ends with exactly one packet-out, sent to the ingress
\* switch, whose output is flood or a port; no exception ends the handler before it.
C2_OnePacketOut == (ev.op = "packet_in" /\ ~ev.args[5]) => (err = "none" /\ Len(SentOf("packet_out")) = 1 /\ sent[Len(sent)].type = "packet_out" /\ sent[Len(sent)].dpid = ev.args[1] /\ (sent[Len(sent)].out_port = OFPP_FLOOD \/ sent[Len(sent)].out_port \in Ports))

\* C3: every edge of the graph has a weight between 1 and 11.
C3_WeightInRange == \A e \in DOMAIN net_adj : WeightInRange(net_adj[e].weight)

\* C4: the graph is symmetric: the edge a->b exists exactly when b->a exists.
C4_GraphSymmetric == \A e \in DOMAIN net_adj : <<e[2], e[1]>> \in DOMAIN net_adj

\* C4 witness: a link was deleted, and a switch left, while other links remain in the graph
C4_Witness == ev.op \in {"link_delete", "switch_leave"} /\ Cardinality(DOMAIN net_adj) >= 4 /\ Cardinality(net_nodes) = NumSwitches

\* C5: a rule sent by _install_path_flows, and a stats request sent by the monitor, goes
\* to a switch that is in self.datapaths when it is sent.
C5_SentOnlyToConnected == (ev.op \in {"packet_in", "installer_send", "monitor_request"}) => \A j \in 1..Len(sent) : (sent[j].type \in {"flow_mod", "stats_request"} => sent[j].dpid \in datapaths)

\* C6: the monitor thread keeps running for ever: no exception ever ends _monitor_loop.
C6_MonitorKeepsRunning == monitor.pc # "dead"

\* C7: for distinct src and dst joined by a route, calculate_best_path returns a route from
\* src to dst whose total weight is least among all routes from src to dst.
C7_BestPathMinimal == (ev.op = "best_path" /\ ev.args[1] # ev.args[2] /\ Routes(net_adj, ev.args[1], ev.args[2]) # {}) => (err = "none" /\ returned \in Routes(net_adj, ev.args[1], ev.args[2]) /\ \A p \in Routes(net_adj, ev.args[1], ev.args[2]) : RatLe(RouteWeight(net_adj, returned), RouteWeight(net_adj, p)))

\* C8: for distinct src and dst joined by no route, calculate_best_path returns None and
\* raises nothing, also when src or dst is no node of the graph.
C8_NoRouteIsNone == (ev.op = "best_path" /\ ev.args[1] # ev.args[2] /\ Routes(net_adj, ev.args[1], ev.args[2]) = {}) => (err = "none" /\ returned = <<>>)

\* What C9 says of the step in which switch s leaves: afterwards no edge starts or ends at
\* s, and calculate_best_path(a, b) is None for all a, b whose routes all passed through s
LeaveCascades(s) == /\ \A e \in DOMAIN net_adj' : e[1] # s /\ e[2] # s
                    /\ \A a \in Dpids, b \in Dpids : (a # b /\ Routes(net_adj, a, b) # {} /\ \A p \in Routes(net_adj, a, b) : \E j \in 1..Len(p) : p[j] = s) => calculate_best_path(net_nodes', net_adj', a, b, nx_checks_target) = [exc |-> "none", path |-> <<>>]

\* C9: after switch-leave(s) no edge of the graph has s as source or destination, and a
\* best_path call whose only routes passed through s yields no path.
C9_LeaveCascades == [][\A s \in Dpids : switch_leave_handler(s) => LeaveCascades(s)]_vars

\* C10 as claimed: after link-add(A, pA, B, pB) the edge A->B has port pA and the edge
\* B->A has port pB, both with weight 1 and capacity 100, for all A and B.
C10_LinkAddEdges == ev.op = "link_add" => (<<ev.args[1], ev.args[3]>> \in DOMAIN net_adj /\ <<ev.args[3], ev.args[1]>> \in DOMAIN net_adj /\ net_adj[<<ev.args[1], ev.args[3]>>] = Edge(ev.args[2], RatInt(1), 100) /\ net_adj[<<ev.args[3], ev.args[1]>>] = Edge(ev.args[4], RatInt(1), 100))

\* C10 as amended: the same for distinct switches A and B.
C10_LinkAddEdgesDistinct == (ev.op = "link_add" /\ ev.args[1] # ev.args[3]) => (<<ev.args[1], ev.args[3]>> \in DOMAIN net_adj /\ <<ev.args[3], ev.args[1]>> \in DOMAIN net_adj /\ net_adj[<<ev.args[1], ev.args[3]>>] = Edge(ev.args[2], RatInt(1), 100) /\ net_adj[<<ev.args[3], ev.args[1]>>] = Edge(ev.args[4], RatInt(1), 100))

\* C10 witness: a link between two switches was added with two different ports, over an older link of theirs
C10_Witness == ev.op = "link_add" /\ ev.args[1] # ev.args[3] /\ ev.args[2] # ev.args[4] /\ Cardinality(DOMAIN net_adj) >= 4

\* The entries j of a reply body that are the last for their port and not for the local port
LastEntries(body) == {j \in 1..Len(body) : body[j].port_no # OFPP_LOCAL /\ \A k \in (j + 1)..Len(body) : body[k].port_no # body[j].port_no}

\* C11: after a stats reply of switch s, the stored sample of every reported port other
\* than the local port holds the counters of that reply, whether or not s is a graph node.
C11_SampleStored == ev.op = "port_stats_reply" => \A j \in LastEntries(ev.args[2]) : (<<ev.args[1], ev.args[2][j].port_no>> \in DOMAIN port_stats /\ port_stats[<<ev.args[1], ev.args[2][j].port_no>>].tx_bytes = ev.args[2][j].tx_bytes /\ port_stats[<<ev.args[1], ev.args[2][j].port_no>>].rx_bytes = ev.args[2][j].rx_bytes)

\* Every port of a reply body is reported once
DistinctPorts(body) == \A i \in 1..Len(body), j \in 1..Len(body) : i # j => body[i].port_no # body[j].port_no

\* Entry j of a reply of switch dpid finds no stored sample, or an elapsed time that is not positive
NoElapsed(dpid, body, clock, j) == <<dpid, body[j].port_no>> \notin DOMAIN port_stats \/ clock[j] - port_stats[<<dpid, body[j].port_no>>].timestamp <= 0

\* What C12 says of a step that handles a reply: an entry without stored sample or without
\* positive elapsed time leaves the weights of its port's edges alone, and a reply of such entries only raises nothing
NoUpdateWithoutElapsed(dpid, body, clock) ==
    /\ \A j \in 1..Len(body) : NoElapsed(dpid, body, clock, j) => \A e \in DOMAIN net_adj : (e[1] = dpid /\ net_adj[e].port = body[j].port_no) => (e \in DOMAIN net_adj' /\ net_adj'[e].weight = net_adj[e].weight)
    /\ (\A j \in 1..Len(body) : NoElapsed(dpid, body, clock, j)) => (net_adj' = net_adj /\ err' = "none")

\* C12: a reported port with no stored sample, or with zero or negative elapsed time since
\* the stored sample, changes no edge weight, and nothing is divided by the elapsed time.
C12_NoUpdateWithoutElapsed == [][(ev'.op = "port_stats_reply" /\ DistinctPorts(ev'.args[2])) => NoUpdateWithoutElapsed(ev'.args[1], ev'.args[2], ev'.args[3])]_vars

\* C12 witness: a reply at time 0 for port 1, whose edge carries a weight of an earlier update:
\* the port had a stored sample, and no time had elapsed since
C12_Witness == ev.op = "port_stats_reply" /\ err = "none" /\ Len(ev.args[2]) = 1 /\ ev.args[2][1].port_no = 1 /\ ev.args[2][1].tx_bytes > 0 /\ ev.args[3][1] = 0 /\ \E e \in DOMAIN net_adj : e[1] = ev.args[1] /\ net_adj[e].port = 1 /\ net_adj[e].weight # RatInt(1)

\* Entry j of a reply of switch dpid causes a weight update: not the local port, a stored sample, time elapsed
Updating(dpid, body, clock, j) == body[j].port_no # OFPP_LOCAL /\ ~NoElapsed(dpid, body, clock, j)

\* The weight the spec gives an edge of the given capacity for entry j of a reply:
\* 1 + 10 * min(throughput / capacity, 1), throughput = (tx delta + rx delta) * 8 / 1e6 / elapsed
ExpectedWeight(dpid, body, clock, j, capacity) ==
    LET prev == port_stats[<<dpid, body[j].port_no>>]
        bits == ((body[j].tx_bytes - prev.tx_bytes) + (body[j].rx_bytes - prev.rx_bytes)) * 8
        throughput == RatDiv(RatDiv(RatInt(bits), RatInt(1000000)), RatInt(clock[j] - prev.timestamp))
        share == RatDiv(throughput, RatInt(capacity))
    IN  RatAdd(RatInt(1), RatMul(RatInt(10), IF RatLt(share, RatInt(1)) THEN share ELSE RatInt(1)))

\* What C13 says of a step that handles a reply: ports and capacities stay, an updating
\* entry sets every edge of its switch and port, every other weight stays, and the local
\* port's entry touches neither the weights nor the stats store
FrameOfReply(dpid, body, clock) ==
    /\ DOMAIN net_adj' = DOMAIN net_adj
    /\ \A e \in DOMAIN net_adj : net_adj'[e].port = net_adj[e].port /\ net_adj'[e].capacity = net_adj[e].capacity
    /\ \A e \in DOMAIN net_adj : (e[1] # dpid \/ ~\E j \in 1..Len(body) : Updating(dpid, body, clock, j) /\ body[j].port_no = net_adj[e].port) => net_adj'[e].weight = net_adj[e].weight
    /\ err' = "none" => \A j \in 1..Len(body) : Updating(dpid, body, clock, j) => \A e \in DOMAIN net_adj : (e[1] = dpid /\ net_adj[e].port = body[j].port_no) => net_adj'[e].weight = ExpectedWeight(dpid, body, clock, j, net_adj[e].capacity)
    /\ <<dpid, OFPP_LOCAL>> \notin DOMAIN port_stats'
    /\ (\A j \in 1..Len(body) : body[j].port_no = OFPP_LOCAL) => (net_adj' = net_adj /\ port_stats' = port_stats)

\* C13: a reply entry for (s, p) that causes an update sets the weight of every edge with
\* source s and port p and leaves every other weight, and every port and capacity, as they
\* were; an entry for the local port changes neither a weight nor the stats store.
C13_ReplyFrame == [][(ev'.op = "port_stats_reply" /\ DistinctPorts(ev'.args[2])) => FrameOfReply(ev'.args[1], ev'.args[2], ev'.args[3])]_vars

\* C13 witness: after a reply for port 1 of switch 1 both edges out of switch 1 on port 1
\* carry an updated weight, while the edge 2 -> 1, whose port is 1 too, still has weight 1
C13_Witness == ev.op = "port_stats_reply" /\ err = "none" /\ ev.args[1] = 1 /\ (\E j \in 1..Len(ev.args[2]) : ev.args[2][j].port_no = 1) /\ {<<1, 2>>, <<1, 3>>, <<2, 1>>} \subseteq DOMAIN net_adj /\ net_adj[<<1, 2>>].port = 1 /\ net_adj[<<1, 3>>].port = 1 /\ net_adj[<<1, 2>>].weight # RatInt(1) /\ net_adj[<<1, 3>>].weight = net_adj[<<1, 2>>].weight /\ net_adj[<<2, 1>>].port = 1 /\ net_adj[<<2, 1>>].weight = RatInt(1)

\* The throughput in Mbps the spec computes for entry j of a reply: (tx delta + rx delta) * 8 / 1e6 / elapsed
ReplyThroughput(dpid, body, clock, j) == RatDiv(RatDiv(RatInt(((body[j].tx_bytes - port_stats[<<dpid, body[j].port_no>>].tx_bytes) + (body[j].rx_bytes - port_stats[<<dpid, body[j].port_no>>].rx_bytes)) * 8), RatInt(1000000)), RatInt(clock[j] - port_stats[<<dpid, body[j].port_no>>].timestamp))

\* What C14 says of the edge e that entry j of a reply updates
WeightOfEntry(dpid, body, clock, j, e) ==
    LET t == ReplyThroughput(dpid, body, clock, j)
        c == RatInt(net_adj[e].capacity)
        w == net_adj'[e].weight
    IN  /\ w = ExpectedWeight(dpid, body, clock, j, net_adj[e].capacity)
        /\ t = RatInt(0) => w = RatInt(1)
        /\ RatMul(t, RatInt(2)) = c => w = RatInt(6)
        /\ RatLe(c, t) => w = RatInt(11)

\* C14: the weight a reply gives an edge is 1 + 10 * min(throughput / capacity, 1) with
\* throughput = (tx delta + rx delta) * 8 / 1e6 / elapsed: 1 at zero throughput, 6 at half
\* the capacity, 11 at or above the capacity.
C14_WeightFormula == [][(ev'.op = "port_stats_reply" /\ DistinctPorts(ev'.args[2]) /\ err' = "none") => \A j \in 1..Len(ev'.args[2]) : Updating(ev'.args[1], ev'.args[2], ev'.args[3], j) => \A e \in DOMAIN net_adj : (e[1] = ev'.args[1] /\ net_adj[e].port = ev'.args[2][j].port_no) => WeightOfEntry(ev'.args[1], ev'.args[2], ev'.args[3], j, e)]_vars

\* C14 witness: a reply at time 1 left weight 11 on an edge of its port, with the counters
\* of the reply at three halves of what the link carries in a second
C14_Witness == ev.op = "port_stats_reply" /\ err = "none" /\ Len(ev.args[2]) = 1 /\ ev.args[2][1].port_no = 1 /\ ev.args[2][1].tx_bytes + ev.args[2][1].rx_bytes = 3 * ByteStep /\ ev.args[3][1] = 1 /\ \E e \in DOMAIN net_adj : e[1] = ev.args[1] /\ net_adj[e].port = 1 /\ net_adj[e].weight = RatInt(11)

\* In a state a data packet-in has left: the path the handler computed, <<>> when it
\* computed none (destination unknown or on the ingress switch, no route, an exception)
PacketInPath == IF ev.op = "packet_in" /\ ~ev.args[5] /\ ev.args[4] \in DOMAIN hosts /\ hosts[ev.args[4]][1] # ev.args[1] THEN calculate_best_path(net_nodes, net_adj, ev.args[1], hosts[ev.args[4]][1], nx_checks_target).path ELSE <<>>

\* The rules among the messages sent that went to switch dpid
RulesTo(dpid) == SelectSeq(sent, LAMBDA m : m.type = "flow_mod" /\ m.dpid = dpid)

\* C15: _install_path_flows sends no rule to a switch of the path that is not connected,
\* and exactly one rule to every connected switch of the path, also behind a disconnected one.
C15_SkipDisconnected == Len(PacketInPath) >= 2 => (err = "none" /\ \A i \in 1..Len(PacketInPath) : Len(RulesTo(PacketInPath[i])) = IF PacketInPath[i] \in datapaths THEN 1 ELSE 0)

\* C15 witness: a path of three switches whose second switch is not connected and whose third is
C15_Witness == Len(PacketInPath) = 3 /\ PacketInPath[2] \notin datapaths /\ PacketInPath[3] \in datapaths /\ Len(RulesTo(PacketInPath[3])) = 1

\* The rule the spec has install_path issue to the i-th switch of the packet-in's path, as
\* far as C16 describes it: the address pair, no timeouts, the output port
RuleAsSpecified(m, i) ==
    /\ m.eth_src = ev.args[3] /\ m.eth_dst = ev.args[4]
    /\ m.idle_timeout = 0 /\ m.hard_timeout = 0
    /\ m.out_port = IF i = Len(PacketInPath) THEN hosts[ev.args[4]][2] ELSE net_adj[<<PacketInPath[i], PacketInPath[i + 1]>>].port

\* C16: every rule of _install_path_flows matches the pair (src_mac, dst_mac), has no idle
\* and no hard timeout, and outputs to last_out_port on the last switch of the path and to
\* the port of the edge to the next switch on every other switch.
C16_RuleContents == Len(PacketInPath) >= 2 => \A j \in 1..Len(sent) : sent[j].type = "flow_mod" => \E i \in 1..Len(PacketInPath) : PacketInPath[i] = sent[j].dpid /\ RuleAsSpecified(sent[j], i)

\* C16 witness: rules went to all three switches of a path, and the first switch's rule
\* outputs to another port than the last switch's
C16_Witness == Len(PacketInPath) = 3 /\ Len(SentOf("flow_mod")) = 3 /\ RulesTo(PacketInPath[1])[1].out_port # RulesTo(PacketInPath[3])[1].out_port

\* A data packet-in has been handled whose destination has a host record on another switch
\* that a route of the graph leads to
PacketInRouted == ev.op = "packet_in" /\ ~ev.args[5] /\ ev.args[4] \in DOMAIN hosts /\ hosts[ev.args[4]][1] # ev.args[1] /\ Routes(net_adj, ev.args[1], hosts[ev.args[4]][1]) # {}

\* The packet-out of a routed packet-in goes last, to the port of the edge from the ingress
\* switch to the second switch of the computed path
PacketOutAlongPath == err = "none" /\ Len(PacketInPath) >= 2 /\ Len(sent) >= 1 /\ sent[Len(sent)] = PacketOut(ev.args[1], ev.args[2], net_adj[<<ev.args[1], PacketInPath[2]>>].port) /\ Len(SentOf("packet_out")) = 1

C18_HostLearnt == (ev.op = "packet_in" /\ ~ev.args[5]) => (ev.args[3] \in DOMAIN hosts /\ hosts[ev.args[3]] = <<ev.args[1], ev.args[2]>>)

\* C18 witness: a data packet-in that was forwarded along a path, with rules installed,
\* has left the record of its source at the ingress switch and port
C18_Witness == ev.op = "packet_in" /\ ~ev.args[5] /\ Len(SentOf("flow_mod")) >= 2 /\ Len(SentOf("packet_out")) = 1 /\ hosts[ev.args[3]] = <<ev.args[1], ev.args[2]>>

\* C19: a data packet-in whose destination has no host record when the handler looks it up
\* is answered with one packet-out that floods, and no rule is sent to any switch.
C19_UnknownFloods == (ev.op = "packet_in" /\ ~ev.args[5] /\ ev.args[4] \notin DOMAIN hosts) => (err = "none" /\ sent = <<PacketOut(ev.args[1], ev.args[2], OFPP_FLOOD)>>)

\* C19 witness: a packet-in for an unknown destination was flooded at a switch that is no node of the graph
C19_Witness == ev.op = "packet_in" /\ ~ev.args[5] /\ ev.args[4] \notin DOMAIN hosts /\ ev.args[1] \notin net_nodes /\ Len(sent) = 1 /\ sent[1].out_port = OFPP_FLOOD

\* C20: a data packet-in whose destination has its host record on the ingress switch is
\* answered with one packet-out to the recorded port; no path is computed, so nothing is
\* raised whatever the graph holds, and no rule is sent to any switch.
C20_LocalDelivery == (ev.op = "packet_in" /\ ~ev.args[5] /\ ev.args[4] \in DOMAIN hosts /\ hosts[ev.args[4]][1] = ev.args[1]) => (err = "none" /\ sent = <<PacketOut(ev.args[1], ev.args[2], hosts[ev.args[4]][2])>>)

\* C20 witness: a packet-in at port 1 of switch 3 for a host at port 2 of switch 3, while
\* switch 3 is no node of the graph and other switches are joined by links
C20_Witness == ev.op = "packet_in" /\ ~ev.args[5] /\ ev.args[1] = 3 /\ ev.args[2] = 1 /\ ev.args[3] # ev.args[4] /\ ev.args[4] \in DOMAIN hosts /\ hosts[ev.args[4]] = <<3, 2>> /\ 3 \notin net_nodes /\ DOMAIN net_adj # {} /\ Len(sent) = 1 /\ sent[1].out_port = 2

\* C21: a data packet-in whose destination has its host record on another switch that no
\* route of the graph leads to is answered with one packet-out that floods; no rule is
\* sent and nothing is raised.
C21_NoRouteFloods == (ev.op = "packet_in" /\ ~ev.args[5] /\ ev.args[4] \in DOMAIN hosts /\ hosts[ev.args[4]][1] # ev.args[1] /\ Routes(net_adj, ev.args[1], hosts[ev.args[4]][1]) = {}) => (err = "none" /\ sent = <<PacketOut(ev.args[1], ev.args[2], OFPP_FLOOD)>>)

\* C22: a packet-in with an LLDP frame leaves the host table, the graph, the stats store
\* and the connected-switch set as they were, and sends no packet-out and no rule.
C22_LLDPIgnored == [][(ev'.op = "packet_in" /\ ev'.args[5]) => (hosts' = hosts /\ net_nodes' = net_nodes /\ net_adj' = net_adj /\ port_stats' = port_stats /\ datapaths' = datapaths /\ sent' = <<>> /\ err' = "none")]_vars

\* C22 witness: an LLDP frame was handled whose source address has no host record, at a
\* switch where the other address is known
C22_Witness == ev.op = "packet_in" /\ ev.args[5] /\ ev.args[3] \notin DOMAIN hosts /\ DOMAIN hosts # {} /\ sent = <<>>

\* C23: host records are never deleted: an address that has a host record keeps one in
\* every later state, whatever event follows.
C23_HostsNeverDeleted == [][DOMAIN hosts \subseteq DOMAIN hosts']_vars

\* C23 witness: a switch has left the graph and is not connected, and an address still has
\* its host record on that switch
C23_Witness == ev.op = "switch_leave" /\ ev.args[1] \notin datapaths /\ \E m \in DOMAIN hosts : hosts[m][1] = ev.args[1]

\* C24: one execution of _install_proactive_flows installs rules for every ordered pair of
\* distinct registered hosts: no execution ends before its loops do, and for every pair the
\* loops take up _install_path_flows is called.
C24_AllPairsInstalled == (\A t \in 1..Len(installers) : installers[t].pc # "dead") /\ (ev.op = "installer_calc" => installers[ev.args[1]].pc = "member")

\* The rule table of the switches, keyed by switch and match, after the rules among msgs were sent in order
RECURSIVE RuleTable(_)
RuleTable(msgs) == IF msgs = <<>> THEN <<>> ELSE LET m == msgs[Len(msgs)] IN IF m.type = "flow_mod" THEN (<<m.dpid, m.eth_src, m.eth_dst>> :> m.out_port) @@ RuleTable(SubSeq(msgs, 1, Len(msgs) - 1)) ELSE RuleTable(SubSeq(msgs, 1, Len(msgs) - 1))

C26_SelfPath == [][(ev'.op = "best_path" /\ ev'.args[1] = ev'.args[2]) => (returned' = <<ev'.args[1]>> /\ err' = "none" /\ net_nodes' = net_nodes /\ net_adj' = net_adj /\ hosts' = hosts /\ port_stats' = port_stats /\ datapaths' = datapaths /\ proactive_flows_installed' = proactive_flows_installed)]_vars

\* C26 witness: the path from X to X was asked for while X is no node of a graph that has edges
C26_Witness == ev.op = "best_path" /\ ev.args[1] = ev.args[2] /\ ev.args[1] \notin net_nodes /\ DOMAIN net_adj # {} /\ returned = <<ev.args[1]>>

\* C27: whenever _install_path_flows is about to look up the port of the edge from a switch
\* of the path to its successor, that edge is in the graph, and the lookup raises nothing;
\* also while link-delete events arrive between the path computation of an installer
\* thread and its lookup.
C27_EdgePresent == /\ \A t \in 1..Len(installers) : installers[t].pc = "port" => <<installers[t].path[installers[t].i], installers[t].path[installers[t].i + 1]>> \in DOMAIN net_adj
                   /\ ev.op = "installer_port" => err = "none"

\* The switches the rules just sent to switch d forward to: the far ends of the links of d
\* whose port is the output port of such a rule
NextHops(d) == {v \in net_nodes : <<d, v>> \in DOMAIN net_adj /\ \E j \in 1..Len(sent) : sent[j].type = "flow_mod" /\ sent[j].dpid = d /\ sent[j].out_port = net_adj[<<d, v>>].port}

\* The switches reached from those of S in one to n such hops
RECURSIVE HopsAfter(_, _)
HopsAfter(S, n) == IF n = 0 THEN {} ELSE LET T == UNION {NextHops(d) : d \in S} IN T \cup HopsAfter(T, n - 1)

\* C28: following, from any switch, the next hops of the rules most recently issued for an
\* address pair never comes back to a switch already visited. Stated of the rules one
\* packet-in issued, which are the most recent ones of their pair on their switches.
C28_NoForwardingLoop == ev.op = "packet_in" => \A d \in Dpids : d \notin HopsAfter({d}, NumSwitches)

\* The steps of the installer threads
InstallerOps == {"installer_wake", "installer_check", "installer_store", "installer_calc", "installer_member", "installer_fetch", "installer_port", "installer_send", "installer_set_flag"}

\* C29: the bulk installation sets the host record of each registered address to the
\* registry's (switch, port), also over a location learnt from packet-ins: its loop over the
\* registry takes the addresses one after the other up to the last, and the step for an
\* address leaves that address with the registry's record and every other record as it
\* was; no other step of the installation changes the host table, and no step changes the
\* graph or the stats store.
C29_RegistryStored == [][(ev'.op \in InstallerOps) =>
                           /\ net_nodes' = net_nodes /\ net_adj' = net_adj /\ port_stats' = port_stats
                           /\ ev'.op # "installer_store" => hosts' = hosts
                           /\ ev'.op = "installer_check" => installers'[ev'.args[1]].pc \in {"done", "store"} /\ (installers'[ev'.args[1]].pc = "store" => installers'[ev'.args[1]].k = 1)
                           /\ ev'.op = "installer_store" => LET k == installers[ev'.args[1]].k
                                                            IN  /\ k \in KnownMacs
                                                                /\ DOMAIN hosts' = DOMAIN hosts \cup {k}
                                                                /\ hosts'[k] = known_hosts[k]
                                                                /\ \A m \in DOMAIN hosts \ {k} : hosts'[m] = hosts[m]
                                                                /\ IF k < NumKnownHosts THEN installers'[ev'.args[1]].pc = "store" /\ installers'[ev'.args[1]].k = k + 1 ELSE installers'[ev'.args[1]].pc # "store"]_vars

\* C29 witness: an installer has stored the registry; the first registered address, learnt
\* elsewhere from a packet-in before, has the registry's record, and an address that is
\* not registered keeps its learnt record
C29_Witness == /\ ev.op = "installer_store" /\ installers[ev.args[1]].pc = "calc"
               /\ \A k \in KnownMacs : k \in DOMAIN hosts /\ hosts[k] = known_hosts[k]
               /\ NumKnownHosts + 1 \in DOMAIN hosts /\ hosts[NumKnownHosts + 1] = <<2, 1>>
               /\ sent = <<>>

\* C30: a switch-connected or switch-disconnected event changes the connected-switch set
\* only and leaves graph, host table and stats store as they were; a switch-enter,
\* switch-leave or link-delete event changes the graph only and leaves the connected-switch
\* set, host table and stats store as they were.
C30_Frames == [][/\ ev'.op = "state_change" => (net_nodes' = net_nodes /\ net_adj' = net_adj /\ hosts' = hosts /\ port_stats' = port_stats)
                 /\ ev'.op \in {"switch_enter", "switch_leave", "link_delete"} => (datapaths' = datapaths /\ hosts' = hosts /\ port_stats' = port_stats)]_vars

\* C30 witness: a switch that is still connected has left the graph, and a host record
\* refers to it
C30_Witness == ev.op = "switch_leave" /\ ev.args[1] \in datapaths /\ ev.args[1] \notin net_nodes /\ DOMAIN net_adj # {} /\ \E m \in DOMAIN hosts : hosts[m][1] = ev.args[1]

====
